---------------------------- MODULE Spec2Model ----------------------------
(***************************************************************************)
(* A model of monitor/monitor_appstore.py: the App Store listing monitor.  *)
(*                                                                         *)
(* One process invocation (main) loads the target list, probes every       *)
(* target with bounded retry, decides whether to notify (ALERT_MODE        *)
(* always | transition), and overwrites the state file.  An external       *)
(* scheduler starts the next invocation after the previous one has exited. *)
(*                                                                         *)
(* Spec       the runs of main, one after the other, over one state file.  *)
(* SpecRetry  check_one_app in isolation, one probe or sleep per step.     *)
(* SpecSave   save_state in isolation, one file operation per step, with   *)
(*            the process killed at any point and the next load_state.     *)
(*                                                                         *)
(* Python values that travel through json.dump / json.load are tagged      *)
(* records [t |-> <type>, v |-> <payload>]; an Optional[int] of a          *)
(* dataclass is <<>> (None) or <<n>>.  Wall-clock values (report header    *)
(* time, updated_at_utc, the "listed since" duration) are one fixed token: *)
(* no decision of the program reads them.                                  *)
(*                                                                         *)
(* Inputs: apps.json holds targets of pairwise distinct (app_id,           *)
(* store_url), listed in ascending or descending order, possibly followed  *)
(* by one malformed entry; RETRIES is a count (>= 0); in Spec the write of *)
(* save_state succeeds; the first run may find any of InitialFiles at the  *)
(* state file's path; notify runs under any environment of NotifyEnvs and  *)
(* any answer of the channel.  A function that may raise gives             *)
(* Returned(v) or Raised(e); main catches nothing, so a raise ends the run.*)
(***************************************************************************)
EXTENDS Integers, Sequences, FiniteSets, TLC

\* Number of distinct monitored targets that may appear in apps.json.
MaxApps == 2
\* Largest RETRIES value explored for check_one_app in isolation.
MaxRetries == 2
\* RETRIES default, main line 376.
DefaultRetries == 2
\* RETRY_BACKOFF_SECONDS default (1.0), main line 377.
DefaultBackoff == 1

(***************************************************************************)
(* Python values and JSON text                                             *)
(***************************************************************************)
PyNone == [t |-> "None"]
PyBool(b) == [t |-> "bool", v |-> b]
PyInt(n) == [t |-> "int", v |-> n]
PyStr(s) == [t |-> "str", v |-> s]
PyList(s) == [t |-> "list", v |-> s]
PyDict(f) == [t |-> "dict", v |-> f]
EmptyDict == PyDict(<<>>)

\* isinstance(x, dict)
isinstance_dict(x) == x.t = "dict"

\* d.get(k, default) on a dict d
dict_get(d, k, default) == IF k \in DOMAIN d.v THEN d.v[k] ELSE default

\* bool(x): Python truthiness of a JSON-loaded value
bool(x) ==
  CASE x.t = "None" -> FALSE
    [] x.t = "bool" -> x.v
    [] x.t = "int" -> x.v # 0
    [] x.t = "str" -> x.v # ""
    [] x.t = "list" -> Len(x.v) > 0
    [] x.t = "dict" -> DOMAIN x.v # {}

RECURSIVE json_dump(_)
\* Mutant of json_dump: None is written as the text "None".
json_dump_NoneAsText(x) ==
  CASE x.t = "None" -> [t |-> "string", v |-> "None"]
    [] x.t = "bool" -> IF x.v THEN [t |-> "true"] ELSE [t |-> "false"]
    [] x.t = "int" -> [t |-> "number", v |-> x.v]
    [] x.t = "str" -> [t |-> "string", v |-> x.v]
    [] x.t = "list" -> [t |-> "array", v |-> [i \in DOMAIN x.v |-> json_dump(x.v[i])]]
    [] x.t = "dict" -> [t |-> "object", v |-> [k \in DOMAIN x.v |-> json_dump(x.v[k])]]

\* json.dump(state, f, ...): the JSON text of a Python value, as its syntax tree
json_dump(x) ==
  CASE x.t = "None" -> [t |-> "null"]
    [] x.t = "bool" -> IF x.v THEN [t |-> "true"] ELSE [t |-> "false"]
    [] x.t = "int" -> [t |-> "number", v |-> x.v]
    [] x.t = "str" -> [t |-> "string", v |-> x.v]
    [] x.t = "list" -> [t |-> "array", v |-> [i \in DOMAIN x.v |-> json_dump(x.v[i])]]
    [] x.t = "dict" -> [t |-> "object", v |-> [k \in DOMAIN x.v |-> json_dump(x.v[k])]]

RECURSIVE json_load(_)
\* json.load(f) of well-formed JSON text
json_load(j) ==
  CASE j.t = "null" -> PyNone
    [] j.t = "true" -> PyBool(TRUE)
    [] j.t = "false" -> PyBool(FALSE)
    [] j.t = "number" -> PyInt(j.v)
    [] j.t = "string" -> PyStr(j.v)
    [] j.t = "array" -> PyList([i \in DOMAIN j.v |-> json_load(j.v[i])])
    [] j.t = "object" -> PyDict([k \in DOMAIN j.v |-> json_load(j.v[k])])

\* What may be found at the state file's path.
NoFile == [t |-> "absent"]
Garbage == [t |-> "garbage"]
Unreadable == [t |-> "unreadable"]
JsonFile(j) == [t |-> "json", v |-> j]

(***************************************************************************)
(* State file                                                              *)
(***************************************************************************)
\* Mutant of load_state: whatever json.load returns is the prior state.
load_state_AnyJson(path, file) ==
  IF path = "" THEN EmptyDict
  ELSE IF file.t = "absent" THEN EmptyDict
  ELSE IF file.t = "unreadable" THEN EmptyDict
  ELSE IF file.t = "garbage" THEN EmptyDict
  ELSE json_load(file.v)

\* load_state(state_file) reading file content `file`
load_state(path, file) ==
  IF path = "" THEN EmptyDict
  ELSE IF file.t = "absent" THEN EmptyDict            \* FileNotFoundError
  ELSE IF file.t = "unreadable" THEN EmptyDict        \* open raises
  ELSE IF file.t = "garbage" THEN EmptyDict           \* json.load raises
  ELSE LET data == json_load(file.v) IN
       IF isinstance_dict(data) THEN data ELSE EmptyDict

\* Mutant of save_state: the new apps are merged into the apps already stored.
save_state_Merge(path, state, file) ==
  IF path = "" THEN file
  ELSE LET old == load_state(path, file)
           got == dict_get(old, "apps", EmptyDict)
           oldApps == IF isinstance_dict(got) THEN got.v ELSE <<>>
           newApps == state.v["apps"].v
           merged == [k \in DOMAIN oldApps \cup DOMAIN newApps |->
                        IF k \in DOMAIN newApps THEN newApps[k] ELSE oldApps[k]]
       IN JsonFile(json_dump(PyDict([updated_at_utc |-> state.v["updated_at_utc"],
                                     apps |-> PyDict(merged)])))

\* Mutant of save_state: the state is written whether or not a path is configured.
save_state_NoPathCheck(path, state, file) == JsonFile(json_dump(state))

\* save_state(state_file, state): the file content afterwards
save_state(path, state, file) ==
  IF path = "" THEN file
  ELSE JsonFile(json_dump(state))

(***************************************************************************)
(* Targets and probes                                                      *)
(***************************************************************************)
None == <<>>
Some(x) == <<x>>

TargetIds == 1..MaxApps

\* One normalized entry of load_apps.  Targets 2k-1 and 2k carry the same
\* app_id under two store regions, so only (app_id, store_url) tells them apart.
App(i) ==
  LET id == ToString((i + 1) \div 2)
  IN [name |-> "App" \o ToString(i),
      app_id |-> id,
      store_url |-> (IF i % 2 = 1 THEN "https://apps.apple.com/cn/app/id"
                                  ELSE "https://apps.apple.com/us/app/id") \o id,
      listed_at |-> IF i = 1 THEN Some("2024-01-01") ELSE None]

\* The orders in which apps.json may list targets: every set of targets,
\* ascending or descending
Orders ==
  { q \in UNION { [1..n -> TargetIds] : n \in 0..MaxApps } :
      \/ \A a, b \in DOMAIN q : a < b => q[a] < q[b]
      \/ \A a, b \in DOMAIN q : a < b => q[a] > q[b] }

\* The target lists load_apps may return
AppLists == { [k \in DOMAIN q |-> App(q[k])] : q \in Orders }

\* What requests.get may do: answer with a status code, or raise (<<>>).
Responses == { Some(200), Some(404), None }
\* The wider set used where check_one_app is explored alone.
AllResponses == { Some(200), Some(404), Some(503), None }

\* store_page_probe(url, timeout) when requests.get gives `resp`
store_page_probe(url, resp) ==
  IF resp = None
  THEN [ok |-> FALSE, http_status |-> None, detail |-> "probe exception: timeout"]
  ELSE LET http_status == resp[1] IN
       IF http_status # 200
       THEN IF http_status \in {404, 410}
            THEN [ok |-> FALSE, http_status |-> Some(http_status),
                  detail |-> "page HTTP " \o ToString(http_status) \o " (strong signal: possibly delisted)"]
            ELSE [ok |-> FALSE, http_status |-> Some(http_status),
                  detail |-> "page HTTP " \o ToString(http_status) \o " (possibly temporary network/throttle)"]
       ELSE [ok |-> TRUE, http_status |-> Some(http_status), detail |-> "page accessible"]

\* UrlCheck(url=store_url, ok=ok, http_status=http_status, detail=detail)
UrlCheck(url, p) ==
  [url |-> url, ok |-> p.ok, http_status |-> p.http_status, detail |-> p.detail]

\* The check of an AppCheckResult whose loop never ran (line 238)
UnknownCheck(url) ==
  [url |-> url, ok |-> FALSE, http_status |-> None, detail |-> "unknown error"]

\* AppCheckResult(name, app_id, store_url, listed_at, check)
AppCheckResult(app, check) ==
  [name |-> app.name, app_id |-> app.app_id, store_url |-> app.store_url,
   listed_at |-> app.listed_at, check |-> check]

RECURSIVE retry_loop(_, _, _, _, _)
\* The for loop of check_one_app from index `attempt` on, `last` being the
\* UrlCheck held so far (<<>> before the first attempt) and resps[k+1] what
\* requests.get does at attempt k.  The value is the final `last`.
retry_loop(store_url, retries, resps, attempt, last) ==
  IF attempt >= retries + 1 THEN last
  ELSE LET this == UrlCheck(store_url, store_page_probe(store_url, resps[attempt + 1])) IN
       IF this.ok THEN Some(this)
       ELSE retry_loop(store_url, retries, resps, attempt + 1, Some(this))

\* check_one_app(app, retries, ...) over the responses resps
check_one_app(app, retries, resps) ==
  LET last == retry_loop(app.store_url, retries, resps, 0, None)
  IN AppCheckResult(app, IF last # None THEN last[1] ELSE UnknownCheck(app.store_url))

(***************************************************************************)
(* Reports.  A report is the sequence of its lines before "\n".join; a     *)
(* line is a tuple <<kind, text...>> and <<>> is an empty line.            *)
(***************************************************************************)
Now == "<now>"

\* [r for r in results if not r.ok]
BadOf(results) == SelectSeq(results, LAMBDA r : ~r.check.ok)

\* format_reason(http_status, detail)
format_reason(http_status, detail) ==
  IF http_status = None
  THEN IF detail # "" THEN "network error/timeout (" \o detail \o ")"
                      ELSE "network error/timeout"
  ELSE LET hs == http_status[1] IN
       IF hs = 404 THEN "404 (strong signal: possibly delisted)"
       ELSE IF hs = 410 THEN "410 (strong signal: resource removed)"
       ELSE IF hs = 403 THEN "403 (risk control/verification/region)"
       ELSE IF hs = 429 THEN "429 (rate limited)"
       ELSE IF 500 <= hs /\ hs <= 599 THEN ToString(hs) \o " (server error)"
       ELSE IF 400 <= hs /\ hs <= 499 THEN ToString(hs) \o " (client error)"
       ELSE ToString(hs) \o " (page not accessible)"

RECURSIVE strip(_)
\* "\n".join(lines).strip(): the empty lines at the end are gone
strip(lines) ==
  IF lines # <<>> /\ lines[Len(lines)] = <<>>
  THEN strip(SubSeq(lines, 1, Len(lines) - 1))
  ELSE lines

\* The block of one failing target in a bad-only or new-bad report
bad_block(r) ==
  << <<"bad", r.name>>, <<"url", r.store_url>> >>
  \o (IF r.listed_at # None THEN << <<"listed", r.listed_at[1]>> >> ELSE <<>>)
  \o << <<"reason", format_reason(r.check.http_status, r.check.detail)>>, <<>> >>

RECURSIVE bad_blocks(_)
bad_blocks(rs) ==
  IF rs = <<>> THEN <<>> ELSE bad_block(Head(rs)) \o bad_blocks(Tail(rs))

\* Mutant of format_bad_only_report: only the first failing target is listed.
format_bad_only_report_FirstOnly(results) ==
  LET bad == BadOf(results) IN
  strip(<< <<"title", Now>>,
           <<"bad/total", ToString(Len(bad)), ToString(Len(results))>>,
           <<>> >>
        \o bad_blocks(SubSeq(bad, 1, 1)))

\* format_bad_only_report(results, tz_name)
format_bad_only_report(results) ==
  LET bad == BadOf(results) IN
  strip(<< <<"title", Now>>,
           <<"bad/total", ToString(Len(bad)), ToString(Len(results))>>,
           <<>> >>
        \o bad_blocks(bad))

\* _app_state_key(app_id, store_url)
app_state_key(app_id, store_url) == app_id \o "|" \o store_url

\* Mutant of prev_ok: a missing entry or ok field counts as known bad.
prev_ok_DefaultFalse(prev_apps, r) ==
  LET key == app_state_key(r.app_id, r.store_url)
      prev == dict_get(prev_apps, key, EmptyDict)
  IN IF isinstance_dict(prev) THEN bool(dict_get(prev, "ok", PyBool(FALSE))) ELSE TRUE

\* prev_ok of format_new_bad_only_report for result r, lines 301-305
prev_ok(prev_apps, r) ==
  LET key == app_state_key(r.app_id, r.store_url)
      prev == dict_get(prev_apps, key, EmptyDict)
  IN IF isinstance_dict(prev) THEN bool(dict_get(prev, "ok", PyBool(TRUE))) ELSE TRUE

\* new_bad of format_new_bad_only_report, lines 294-307
new_bad_of(results, prev_state) ==
  LET got == dict_get(prev_state, "apps", EmptyDict)
      prev_apps == IF isinstance_dict(got) THEN got ELSE EmptyDict
  IN SelectSeq(BadOf(results), LAMBDA r : prev_ok(prev_apps, r))

RECURSIVE still_bad_lines(_)
\* The "- name: reason" listing of the fallback message, lines 319-321
still_bad_lines(rs) ==
  IF rs = <<>> THEN <<>>
  ELSE << <<"still", Head(rs).name,
            format_reason(Head(rs).check.http_status, Head(rs).check.detail)>> >>
       \o still_bad_lines(Tail(rs))

\* Mutant of format_new_bad_only_report: the report lists every failing target.
format_new_bad_only_report_AllBad(results, prev_state) ==
  LET bad == BadOf(results)
      new_bad == new_bad_of(results, prev_state)
      head == << <<"title", Now>>,
                 <<"new/bad/total", ToString(Len(new_bad)), ToString(Len(bad)),
                   ToString(Len(results))>>,
                 <<>> >>
  IN [report |-> strip(head \o bad_blocks(bad)), new_bad |-> new_bad, bad |-> bad]

\* format_new_bad_only_report(results, tz_name, prev_state):
\* the tuple (report, new_bad, bad) as a record
format_new_bad_only_report(results, prev_state) ==
  LET bad == BadOf(results)
      new_bad == new_bad_of(results, prev_state)
      head == << <<"title", Now>>,
                 <<"new/bad/total", ToString(Len(new_bad)), ToString(Len(bad)),
                   ToString(Len(results))>>,
                 <<>> >>
  IN [report |-> IF new_bad = <<>>
                 THEN strip(head \o << <<"no new bad">> >>
                            \o (IF bad # <<>>
                                THEN << <<>>, <<"still bad:">> >> \o still_bad_lines(bad)
                                ELSE <<>>)
                            \o << <<>> >>)
                 ELSE strip(head \o bad_blocks(new_bad)),
      new_bad |-> new_bad,
      bad |-> bad]

\* Mutant of state_entry: the http status is not recorded.
state_entry_DropStatus(r) ==
  PyDict([name |-> PyStr(r.name),
          app_id |-> PyStr(r.app_id),
          store_url |-> PyStr(r.store_url),
          ok |-> PyBool(r.check.ok),
          http_status |-> PyNone,
          detail |-> PyStr(r.check.detail)])

\* The entry build_state writes for result r
state_entry(r) ==
  PyDict([name |-> PyStr(r.name),
          app_id |-> PyStr(r.app_id),
          store_url |-> PyStr(r.store_url),
          ok |-> PyBool(r.check.ok),
          http_status |-> IF r.check.http_status = None THEN PyNone
                          ELSE PyInt(r.check.http_status[1]),
          detail |-> PyStr(r.check.detail)])

\* build_state(results): a later result overwrites an earlier one of the same key
build_state(results) ==
  LET keys == { app_state_key(results[i].app_id, results[i].store_url) : i \in DOMAIN results }
      lastOf(k) == CHOOSE i \in DOMAIN results :
                     /\ app_state_key(results[i].app_id, results[i].store_url) = k
                     /\ \A j \in DOMAIN results :
                          app_state_key(results[j].app_id, results[j].store_url) = k => j <= i
  IN PyDict([updated_at_utc |-> PyStr(Now),
             apps |-> PyDict([k \in keys |-> state_entry(results[lastOf(k)])])])

(***************************************************************************)
(* notifier.py and notify, lines 360-371                                   *)
(***************************************************************************)
\* A JSON object with the members f
JObject(f) == [t |-> "object", v |-> f]

NotifyResult(ok, detail) == [ok |-> ok, detail |-> detail]
\* An exception that leaves a function instead of a value
Raised(exc) == [raised |-> exc]
IsRaised(x) == "raised" \in DOMAIN x

\* What requests.post may do: raise (None), or answer with a status code and
\* a body that is JSON or not (None)
PostBodies ==
  { None,
    Some(JObject(<<>>)),
    Some(JObject([errcode |-> [t |-> "number", v |-> 0]])),
    Some(JObject([errcode |-> [t |-> "number", v |-> 93000]])),
    Some(JObject([code |-> [t |-> "number", v |-> 0]])),
    Some(JObject([code |-> [t |-> "number", v |-> 40001]])),
    Some([t |-> "array", v |-> <<>>]) }
PostReplies ==
  { None } \cup { Some([status_code |-> s, body |-> b]) : s \in {200, 500}, b \in PostBodies }

\* resp.json() under try/except: data = {} when the body is no JSON
resp_json(resp) == IF resp.body = None THEN EmptyDict ELSE json_load(resp.body[1])

\* Mutant of notify_wecom_text: no try/except around the request.
notify_wecom_text_NoCatch(webhook_url, content, reply) ==
  IF webhook_url = "" THEN NotifyResult(FALSE, "WECOM_WEBHOOK_URL empty")
  ELSE IF reply = None THEN Raised("RequestException")
  ELSE IF reply[1].status_code # 200 THEN NotifyResult(FALSE, "wecom: bad status code")
  ELSE LET data == resp_json(reply[1]) IN
    IF isinstance_dict(data) /\ dict_get(data, "errcode", PyInt(0)) # PyInt(0)
    THEN NotifyResult(FALSE, "wecom: error returned")
    ELSE NotifyResult(TRUE, "wecom: sent")

\* notifier.py, lines 14-34
notify_wecom_text(webhook_url, content, reply) ==
  IF webhook_url = "" THEN NotifyResult(FALSE, "WECOM_WEBHOOK_URL empty")
  ELSE IF reply = None THEN NotifyResult(FALSE, "wecom: send failed")
  ELSE IF reply[1].status_code # 200 THEN NotifyResult(FALSE, "wecom: bad status code")
  ELSE LET data == resp_json(reply[1]) IN
    IF isinstance_dict(data) /\ dict_get(data, "errcode", PyInt(0)) # PyInt(0)
    THEN NotifyResult(FALSE, "wecom: error returned")
    ELSE NotifyResult(TRUE, "wecom: sent")

\* notifier.py, lines 37-67
notify_serverchan(sendkey, title, desp, reply) ==
  IF sendkey = "" THEN NotifyResult(FALSE, "SERVERCHAN_SENDKEY empty")
  ELSE IF reply = None THEN NotifyResult(FALSE, "serverchan: send failed")
  ELSE IF reply[1].status_code # 200 THEN NotifyResult(FALSE, "serverchan: bad status code")
  ELSE LET data == resp_json(reply[1]) IN
    IF isinstance_dict(data) /\ dict_get(data, "code", PyInt(0)) # PyInt(0)
    THEN NotifyResult(FALSE, "serverchan: error returned")
    ELSE NotifyResult(TRUE, "serverchan: sent")

\* The environment notify reads: each variable unset (None) or set
NotifyEnvs ==
  [NOTIFY_CHANNEL : {None, Some("wecom"), Some("ServerChan"), Some("email")},
   WECOM_WEBHOOK_URL : {None, Some(""), Some("https://qyapi.example/send?key=k")},
   SERVERCHAN_SENDKEY : {None, Some("SCT1")},
   SERVERCHAN_TITLE : {None}]

\* _env, lines 47-51 (the values of NotifyEnvs carry no outer blanks)
env_get(env, name, default) == IF env[name] = None THEN default ELSE env[name][1]

\* str.lower on the channel names of NotifyEnvs
lower(s) == IF s = "ServerChan" THEN "serverchan" ELSE s

\* notify, lines 360-371
notify(report, env, reply) ==
  LET channel == lower(env_get(env, "NOTIFY_CHANNEL", "wecom")) IN
  IF channel = "wecom"
  THEN notify_wecom_text(env_get(env, "WECOM_WEBHOOK_URL", ""), report, reply)
  ELSE IF channel = "serverchan"
  THEN notify_serverchan(env_get(env, "SERVERCHAN_SENDKEY", ""),
                         env_get(env, "SERVERCHAN_TITLE", "App Store alert"), report, reply)
  ELSE NotifyResult(FALSE, "unknown NOTIFY_CHANNEL: " \o channel)

\* What a notify call may return, over every environment and every answer
\* of the channel; (ok, detail) does not depend on the report
NotifyResults ==
  { notify(<<>>, env, reply) : env \in NotifyEnvs, reply \in PostReplies }

\* ok, detail = notify(...): what main keeps of the call (detail is only printed)
NotifyReturns ==
  { IF IsRaised(res) THEN res ELSE [ok |-> res.ok] : res \in NotifyResults }

(***************************************************************************)
(* load_apps and parse_listed_at, lines 101-166                            *)
(***************************************************************************)
\* A value returned by a function that may also raise
Returned(v) == [returned |-> v]

\* str(x) of a value json.load gives
py_str(x) ==
  CASE x.t = "str" -> x.v
    [] x.t = "int" -> ToString(x.v)
    [] x.t = "bool" -> (IF x.v THEN "True" ELSE "False")
    [] x.t = "None" -> "None"
    [] OTHER -> "<repr>"

RECURSIVE lstrip(_)
lstrip(s) == IF Len(s) > 0 /\ SubSeq(s, 1, 1) = " " THEN lstrip(SubSeq(s, 2, Len(s))) ELSE s
RECURSIVE rstrip(_)
rstrip(s) ==
  IF Len(s) > 0 /\ SubSeq(s, Len(s), Len(s)) = " " THEN rstrip(SubSeq(s, 1, Len(s) - 1)) ELSE s
\* str.strip
str_strip(s) == rstrip(lstrip(s))

Digits == {"0", "1", "2", "3", "4", "5", "6", "7", "8", "9"}
\* str.isdigit
isdigit(s) == Len(s) > 0 /\ \A i \in 1..Len(s) : SubSeq(s, i, i) \in Digits
\* str.startswith
startswith(s, prefix) == Len(s) >= Len(prefix) /\ SubSeq(s, 1, Len(prefix)) = prefix

\* datetime.strptime succeeds with "%Y-%m-%d", "%Y-%m-%d %H:%M:%S" and
\* "%Y-%m-%d %H:%M:%S %z": the shape of zero-padded fields (the ranges of
\* month, day and time are not looked at)
is_date(s) ==
  /\ Len(s) = 10
  /\ isdigit(SubSeq(s, 1, 4)) /\ SubSeq(s, 5, 5) = "-"
  /\ isdigit(SubSeq(s, 6, 7)) /\ SubSeq(s, 8, 8) = "-"
  /\ isdigit(SubSeq(s, 9, 10))
is_datetime(s) ==
  /\ Len(s) = 19
  /\ is_date(SubSeq(s, 1, 10)) /\ SubSeq(s, 11, 11) = " "
  /\ isdigit(SubSeq(s, 12, 13)) /\ SubSeq(s, 14, 14) = ":"
  /\ isdigit(SubSeq(s, 15, 16)) /\ SubSeq(s, 17, 17) = ":"
  /\ isdigit(SubSeq(s, 18, 19))
is_datetime_tz(s) ==
  /\ Len(s) = 25
  /\ is_datetime(SubSeq(s, 1, 19)) /\ SubSeq(s, 20, 20) = " "
  /\ SubSeq(s, 21, 21) \in {"+", "-"}
  /\ isdigit(SubSeq(s, 22, 25))

\* parse_listed_at, lines 140-166: None, the datetime written s, or ValueError
parse_listed_at(value) ==
  IF value = PyNone THEN Returned(None)
  ELSE LET s == str_strip(py_str(value)) IN
    IF s = "" THEN Returned(None)
    ELSE IF is_datetime_tz(s) \/ is_datetime(s) \/ is_date(s) THEN Returned(Some(s))
    ELSE Raised("ValueError: listed_at")

\* The body of the loop of load_apps, lines 110-135, for one entry
load_entry(raw) ==
  IF ~isinstance_dict(raw) THEN Raised("ValueError: not an object")
  ELSE LET name == str_strip(py_str(dict_get(raw, "name", PyStr(""))))
           app_id == str_strip(py_str(dict_get(raw, "app_id", PyStr(""))))
           store_url == str_strip(py_str(dict_get(raw, "store_url", PyStr(""))))
           listed_at_raw == dict_get(raw, "listed_at", PyNone)
       IN IF name = "" THEN Raised("ValueError: name")
          ELSE IF ~isdigit(app_id) THEN Raised("ValueError: app_id")
          ELSE IF store_url = "" THEN Raised("ValueError: store_url empty")
          ELSE IF ~(startswith(store_url, "https://") \/ startswith(store_url, "http://"))
          THEN Raised("ValueError: store_url")
          ELSE LET listed_at == parse_listed_at(listed_at_raw) IN
            IF IsRaised(listed_at) THEN listed_at
            ELSE Returned([name |-> name, app_id |-> app_id, store_url |-> store_url,
                           listed_at |-> listed_at.returned])

\* Mutant of load_apps: the entries before the first malformed one are returned.
load_apps_ValidPrefix(data) ==
  IF data.t # "list" THEN Raised("ValueError: top level")
  ELSE LET out == [idx \in DOMAIN data.v |-> load_entry(data.v[idx])]
           good == { n \in 0..Len(data.v) : \A idx \in 1..n : ~IsRaised(out[idx]) }
           last_good == CHOOSE n \in good : \A m \in good : m <= n
       IN Returned([idx \in 1..last_good |-> out[idx].returned])

\* load_apps on the value json.load gives, lines 101-137: the normalized
\* list, or the ValueError of the first entry that fails
load_apps(data) ==
  IF data.t # "list" THEN Raised("ValueError: top level")
  ELSE LET out == [idx \in DOMAIN data.v |-> load_entry(data.v[idx])]
           failed == { idx \in DOMAIN data.v : IsRaised(out[idx]) }
       IN IF failed # {}
          THEN out[CHOOSE idx \in failed : \A other \in failed : idx <= other]
          ELSE Returned([idx \in DOMAIN data.v |-> out[idx].returned])

\* The entry of apps.json that load_apps normalizes to App(i)
RawApp(i) ==
  LET a == App(i)
      app_id == IF i % 2 = 1 THEN PyStr(a.app_id) ELSE PyInt((i + 1) \div 2)
  IN IF a.listed_at = None
     THEN PyDict([name |-> PyStr(" " \o a.name), app_id |-> app_id,
                  store_url |-> PyStr(a.store_url)])
     ELSE PyDict([name |-> PyStr(" " \o a.name), app_id |-> app_id,
                  store_url |-> PyStr(a.store_url \o " "),
                  listed_at |-> PyStr(a.listed_at[1])])

\* Entries load_apps rejects: a blank name, an id that is no number, an
\* empty url, a url that is not http(s), a listed_at in no known format
MalformedApps ==
  LET good == [name |-> PyStr("App0"), app_id |-> PyStr("9"),
               store_url |-> PyStr("https://apps.apple.com/cn/app/id9"),
               listed_at |-> PyNone]
  IN { PyDict([good EXCEPT !.name = PyStr("  ")]),
       PyDict([good EXCEPT !.app_id = PyStr("id9")]),
       PyDict([good EXCEPT !.store_url = PyStr("")]),
       PyDict([good EXCEPT !.store_url = PyStr("ftp://apps.apple.com/cn/app/id9")]),
       PyDict([good EXCEPT !.listed_at = PyStr("01/02/2024")]) }

\* What json.load may give for apps.json: a list of well-formed entries,
\* such a list of fewer than MaxApps entries followed by a malformed one, or
\* a value that is no list
AppsFiles ==
  LET raw(q) == [k \in DOMAIN q |-> RawApp(q[k])]
  IN { PyList(raw(q)) : q \in Orders }
     \cup { PyList(Append(raw(q), bad)) :
              q \in { o \in Orders : Len(o) < MaxApps }, bad \in MalformedApps }
     \cup { EmptyDict }

(***************************************************************************)
(* State                                                                   *)
(***************************************************************************)
VARIABLES
  alert_mode,     \* ALERT_MODE of the deployment
  state_file,     \* STATE_FILE of the deployment ("" when not configured)
  disk,           \* what is stored at the state file's path
  pc,             \* where main is
  apps_file,      \* what json.load gave for apps.json in this run
  apps,           \* main: the loaded target list
  results,        \* main: the AppCheckResults so far
  prev_state,     \* main: what load_state returned
  send_report,    \* main: report of format_new_bad_only_report
  new_bad,        \* main: new_bad of format_new_bad_only_report
  notify_ok,      \* main: ok of the notify call or of "skip notify"
  exit_code,      \* main: the value returned
  sent,           \* reports handed to notify in this run
  saves,          \* calls of save_state in this run
  last_run,       \* the previous completed run: its results, whether it
                  \* called notify, the ok it ended with, the value returned,
                  \* and, in transition mode with a state file, the keys of
                  \* its targets that had failed the run before and were ok in it
  r_pc,           \* check_one_app alone: where it is
  r_app,          \* check_one_app alone: app
  r_retries,      \* check_one_app alone: retries
  attempt,        \* check_one_app alone: the loop index
  last,           \* check_one_app alone: last
  probes,         \* check_one_app alone: the UrlChecks of the probes made
  sleeps,         \* check_one_app alone: the _sleep_jitter calls made
  r_result,       \* check_one_app alone: the AppCheckResult returned
  s_pc,           \* save_state alone: where it is
  tmp,            \* save_state alone: what is stored at state_file + ".tmp"
  old_disk,       \* save_state alone: the state file before the call
  loaded          \* save_state alone: what the next run's load_state returns

main_vars == <<alert_mode, state_file, apps_file, disk, pc, apps, results, prev_state,
               send_report, new_bad, notify_ok, exit_code, sent, saves, last_run>>
retry_vars == <<r_pc, r_app, r_retries, attempt, last, probes, sleeps, r_result>>
save_vars == <<s_pc, tmp, old_disk, loaded>>
vars == <<main_vars, retry_vars, save_vars>>

StateFiles == {"", "state/appstore.json"}
AlertModes == {"always", "transition"}

Key1 == app_state_key(App(1).app_id, App(1).store_url)
\* What a first run may find at the state file's path: nothing, text that
\* is no JSON, a file that cannot be opened, JSON of another shape than
\* build_state writes, or a state left by an earlier deployment.
InitialFiles ==
  { NoFile, Garbage, Unreadable,
    JsonFile([t |-> "array", v |-> <<>>]),
    JsonFile(JObject(<<>>)),
    JsonFile(JObject([apps |-> [t |-> "array", v |-> <<>>]])) }
  \cup { JsonFile(JObject([apps |-> JObject([k \in {Key1} |-> e])])) :
           e \in { [t |-> "true"],
                   JObject(<<>>),
                   JObject([ok |-> [t |-> "null"]]),
                   JObject([ok |-> [t |-> "false"]]),
                   JObject([ok |-> [t |-> "true"]]) } }

\* No run has completed yet
NoLastRun ==
  [ran |-> FALSE, results |-> {}, notified |-> FALSE, notify_ok |-> None,
   exit_code |-> None, recovered |-> {}]

\* main's locals before they are assigned
MainLocalsInit ==
  /\ pc = "start"
  /\ apps_file = None
  /\ apps = <<>>
  /\ results = <<>>
  /\ prev_state = EmptyDict
  /\ send_report = <<>>
  /\ new_bad = <<>>
  /\ notify_ok = None
  /\ exit_code = None
  /\ sent = <<>>
  /\ saves = 0

RetryIdle ==
  /\ r_pc = "idle"
  /\ r_app = App(1)
  /\ r_retries = 0
  /\ attempt = 0
  /\ last = None
  /\ probes = <<>>
  /\ sleeps = <<>>
  /\ r_result = None

SaveIdle ==
  /\ s_pc = "idle"
  /\ tmp = NoFile
  /\ old_disk = NoFile
  /\ loaded = None

Init ==
  /\ alert_mode \in AlertModes
  /\ state_file \in StateFiles
  /\ disk \in (IF state_file = "" THEN {NoFile} ELSE InitialFiles)
  /\ MainLocalsInit
  /\ last_run = NoLastRun
  /\ RetryIdle
  /\ SaveIdle

(***************************************************************************)
(* main, lines 374-422                                                     *)
(***************************************************************************)
\* What load_apps gives for each content of apps.json
LoadOutcomes == [data \in AppsFiles |-> load_apps(data)]

\* apps = load_apps(apps_file), line 383; main has no try/except, so the
\* ValueError of load_apps ends the run (exit status 1 of the interpreter)
LoadApps ==
  /\ pc = "start"
  /\ \E data \in AppsFiles :
       LET loading == LoadOutcomes[data] IN
         /\ apps_file' = Some(data)
         /\ IF IsRaised(loading)
            THEN apps' = apps /\ pc' = "raised" /\ exit_code' = Some(1)
            ELSE apps' = loading.returned /\ pc' = "check" /\ exit_code' = exit_code
  /\ UNCHANGED <<alert_mode, state_file, disk, results, prev_state, send_report,
                 new_bad, notify_ok, sent, saves, last_run, retry_vars, save_vars>>

\* What check_one_app(app, retries = RETRIES default, ...) may return for
\* each target, over everything requests.get may do at each attempt
CheckOutcomes ==
  [app \in { App(i) : i \in TargetIds } |->
     { check_one_app(app, DefaultRetries, resps) :
         resps \in [1..(DefaultRetries + 1) -> Responses] }]

\* One iteration of the loop of lines 385-393
CheckOneApp ==
  /\ pc = "check"
  /\ Len(results) < Len(apps)
  /\ \E r \in CheckOutcomes[apps[Len(results) + 1]] : results' = Append(results, r)
  /\ UNCHANGED <<alert_mode, state_file, apps_file, disk, pc, apps, prev_state, send_report,
                 new_bad, notify_ok, exit_code, sent, saves, last_run, retry_vars, save_vars>>

\* Mutant of Checked: the loop also ends at the first failing result.
Checked_StopAtFailure ==
  pc = "check" /\ (Len(results) = Len(apps)
                     \/ (results # <<>> /\ ~results[Len(results)].check.ok))

\* The loop of lines 385-393 has gone through every target
Checked == pc = "check" /\ Len(results) = Len(apps)

\* Mutant of LoadPrevState: the state is saved before the prior state is read.
LoadPrevState_SaveFirst ==
  /\ Checked
  /\ BadOf(results) # <<>>
  /\ alert_mode = "transition"
  /\ disk' = save_state(state_file, build_state(results), disk)
  /\ prev_state' = load_state(state_file, disk')
  /\ pc' = "format"
  /\ UNCHANGED <<alert_mode, state_file, apps_file, apps, results, send_report,
                 new_bad, notify_ok, exit_code, sent, saves, last_run, retry_vars, save_vars>>

\* prev_state = load_state(state_file), line 400
LoadPrevState ==
  /\ Checked
  /\ BadOf(results) # <<>>
  /\ alert_mode = "transition"
  /\ prev_state' = load_state(state_file, disk)
  /\ pc' = "format"
  /\ UNCHANGED <<alert_mode, state_file, apps_file, disk, apps, results, send_report,
                 new_bad, notify_ok, exit_code, sent, saves, last_run, retry_vars, save_vars>>

\* send_report, new_bad, _all_bad = format_new_bad_only_report(...), line 401,
\* and the branch of line 402
FormatNewBad ==
  /\ pc = "format"
  /\ LET f == format_new_bad_only_report(results, prev_state) IN
       /\ send_report' = f.report
       /\ new_bad' = f.new_bad
       /\ pc' = IF f.new_bad # <<>> THEN "notify_new" ELSE "skip"
  /\ UNCHANGED <<alert_mode, state_file, apps_file, disk, apps, results, prev_state,
                 notify_ok, exit_code, sent, saves, last_run, retry_vars, save_vars>>

\* ok, detail = notify(send_report), line 403; main has no try/except, so an
\* exception leaving notify would end the run
NotifyNewBad ==
  /\ pc = "notify_new"
  /\ \E res \in NotifyReturns :
       IF IsRaised(res)
       THEN notify_ok' = notify_ok /\ pc' = "raised"
       ELSE notify_ok' = Some(res.ok) /\ pc' = "save_new"
  /\ sent' = Append(sent, send_report)
  /\ UNCHANGED <<alert_mode, state_file, apps_file, disk, apps, results, prev_state,
                 send_report, new_bad, exit_code, saves, last_run, retry_vars, save_vars>>

\* Mutant of SaveAfterNotify: the branch returns without saving.
SaveAfterNotify_NoSave ==
  /\ pc = "save_new"
  /\ saves' = saves + 1
  /\ exit_code' = Some(IF notify_ok[1] THEN 0 ELSE 2)
  /\ pc' = "done"
  /\ UNCHANGED <<alert_mode, state_file, apps_file, disk, apps, results, prev_state, send_report,
                 new_bad, notify_ok, sent, last_run, retry_vars, save_vars>>

\* Mutant of SaveAfterNotify: the state is saved only when notify succeeded.
SaveAfterNotify_OnlyIfDelivered ==
  /\ pc = "save_new"
  /\ disk' = IF notify_ok[1] THEN save_state(state_file, build_state(results), disk) ELSE disk
  /\ saves' = saves + 1
  /\ exit_code' = Some(IF notify_ok[1] THEN 0 ELSE 2)
  /\ pc' = "done"
  /\ UNCHANGED <<alert_mode, state_file, apps_file, apps, results, prev_state, send_report,
                 new_bad, notify_ok, sent, last_run, retry_vars, save_vars>>

\* save_state(...); return 0 if ok else 2, lines 404-408
SaveAfterNotify ==
  /\ pc = "save_new"
  /\ disk' = save_state(state_file, build_state(results), disk)
  /\ saves' = saves + 1
  /\ exit_code' = Some(IF notify_ok[1] THEN 0 ELSE 2)
  /\ pc' = "done"
  /\ UNCHANGED <<alert_mode, state_file, apps_file, apps, results, prev_state, send_report,
                 new_bad, notify_ok, sent, last_run, retry_vars, save_vars>>

\* ok, detail = True, "skip notify (no new bad)", line 409
SkipNotify ==
  /\ pc = "skip"
  /\ notify_ok' = Some(TRUE)
  /\ pc' = "save_bad"
  /\ UNCHANGED <<alert_mode, state_file, apps_file, disk, apps, results, prev_state,
                 send_report, new_bad, exit_code, sent, saves, last_run, retry_vars, save_vars>>

\* bad_report = format_bad_only_report(...); ok, detail = notify(bad_report),
\* lines 412-413
NotifyBad ==
  /\ Checked
  /\ BadOf(results) # <<>>
  /\ alert_mode # "transition"
  /\ \E res \in NotifyReturns :
       IF IsRaised(res)
       THEN notify_ok' = notify_ok /\ pc' = "raised"
       ELSE notify_ok' = Some(res.ok) /\ pc' = "save_bad"
  /\ sent' = Append(sent, format_bad_only_report(results))
  /\ UNCHANGED <<alert_mode, state_file, apps_file, disk, apps, results, prev_state,
                 send_report, new_bad, exit_code, saves, last_run, retry_vars, save_vars>>

\* save_state(...); return 0 if alert_mode == "transition" else 2, lines 417-418
SaveBad ==
  /\ pc = "save_bad"
  /\ disk' = save_state(state_file, build_state(results), disk)
  /\ saves' = saves + 1
  /\ exit_code' = Some(IF alert_mode = "transition" THEN 0 ELSE 2)
  /\ pc' = "done"
  /\ UNCHANGED <<alert_mode, state_file, apps_file, apps, results, prev_state, send_report,
                 new_bad, notify_ok, sent, last_run, retry_vars, save_vars>>

\* Mutant of SaveClean: a clean run leaves the state file as it is.
SaveClean_KeepsOldState ==
  /\ Checked
  /\ BadOf(results) = <<>>
  /\ saves' = saves + 1
  /\ exit_code' = Some(0)
  /\ pc' = "done"
  /\ UNCHANGED <<alert_mode, state_file, apps_file, disk, apps, results, prev_state,
                 send_report, new_bad, notify_ok, sent, last_run, retry_vars, save_vars>>

\* Mutant of SaveClean: a clean run returns without saving.
SaveClean_NoSave ==
  /\ Checked
  /\ BadOf(results) = <<>>
  /\ exit_code' = Some(0)
  /\ pc' = "done"
  /\ UNCHANGED <<alert_mode, state_file, apps_file, disk, apps, results, prev_state, send_report,
                 new_bad, notify_ok, sent, saves, last_run, retry_vars, save_vars>>

\* No failing target: save_state(...); return 0, lines 420-422
SaveClean ==
  /\ Checked
  /\ BadOf(results) = <<>>
  /\ disk' = save_state(state_file, build_state(results), disk)
  /\ saves' = saves + 1
  /\ exit_code' = Some(0)
  /\ pc' = "done"
  /\ UNCHANGED <<alert_mode, state_file, apps_file, apps, results, prev_state, send_report,
                 new_bad, notify_ok, sent, last_run, retry_vars, save_vars>>

\* The scheduler starts the next invocation: a fresh process, the same
\* deployment and state file.  A run that raised is no completed run.
NextRun ==
  /\ pc \in {"done", "raised"}
  /\ last_run' = IF pc = "done"
                 THEN [ran |-> TRUE,
                       results |-> { results[i] : i \in DOMAIN results },
                       notified |-> sent # <<>>,
                       notify_ok |-> notify_ok,
                       exit_code |-> exit_code,
                       recovered |->
                         IF alert_mode = "transition" /\ state_file # ""
                         THEN { app_state_key(results[i].app_id, results[i].store_url) :
                                  i \in { j \in DOMAIN results :
                                            /\ results[j].check.ok
                                            /\ \E p \in last_run.results :
                                                 /\ p.app_id = results[j].app_id
                                                 /\ p.store_url = results[j].store_url
                                                 /\ ~p.check.ok } }
                         ELSE {}]
                 ELSE last_run
  /\ pc' = "start"
  /\ apps_file' = None
  /\ apps' = <<>>
  /\ results' = <<>>
  /\ prev_state' = EmptyDict
  /\ send_report' = <<>>
  /\ new_bad' = <<>>
  /\ notify_ok' = None
  /\ exit_code' = None
  /\ sent' = <<>>
  /\ saves' = 0
  /\ UNCHANGED <<alert_mode, state_file, disk, retry_vars, save_vars>>

Next ==
  \/ LoadApps
  \/ CheckOneApp
  \/ LoadPrevState
  \/ FormatNewBad
  \/ NotifyNewBad
  \/ SaveAfterNotify
  \/ SkipNotify
  \/ NotifyBad
  \/ SaveBad
  \/ SaveClean
  \/ NextRun

Spec == Init /\ [][Next]_vars

(***************************************************************************)
(* check_one_app, lines 218-239, one probe or sleep per step               *)
(***************************************************************************)
\* random.random() * 0.25 of _sleep_jitter, in milliseconds: both ends of [0, 250)
Jitters == {0, 249}

InitRetry ==
  /\ alert_mode = "always"
  /\ state_file = ""
  /\ disk = NoFile
  /\ MainLocalsInit
  /\ last_run = NoLastRun
  /\ r_pc = "probe"
  /\ r_app \in { App(i) : i \in TargetIds }
  /\ r_retries \in 0..MaxRetries
  /\ attempt = 0
  /\ last = None
  /\ probes = <<>>
  /\ sleeps = <<>>
  /\ r_result = None
  /\ SaveIdle

\* Mutant of RetryProbe: the first failure is kept, later ones are dropped.
RetryProbe_KeepFirst ==
  /\ r_pc = "probe"
  /\ attempt < r_retries + 1
  /\ \E resp \in AllResponses :
       LET this == UrlCheck(r_app.store_url, store_page_probe(r_app.store_url, resp)) IN
         /\ last' = IF last = None \/ this.ok THEN Some(this) ELSE last
         /\ probes' = Append(probes, [resp |-> resp, check |-> this])
         /\ r_pc' = IF this.ok THEN "return"
                    ELSE IF attempt < r_retries THEN "sleep"
                    ELSE "return"
  /\ UNCHANGED <<main_vars, save_vars, r_app, r_retries, attempt, sleeps, r_result>>

\* Mutant of RetryProbe: no break on ok.
RetryProbe_NoBreak ==
  /\ r_pc = "probe"
  /\ attempt < r_retries + 1
  /\ \E resp \in AllResponses :
       LET this == UrlCheck(r_app.store_url, store_page_probe(r_app.store_url, resp)) IN
         /\ last' = Some(this)
         /\ probes' = Append(probes, [resp |-> resp, check |-> this])
         /\ r_pc' = IF attempt < r_retries THEN "sleep" ELSE "return"
  /\ UNCHANGED <<main_vars, save_vars, r_app, r_retries, attempt, sleeps, r_result>>

\* Lines 226-231: one probe, the assignment of last, and where the loop goes
RetryProbe ==
  /\ r_pc = "probe"
  /\ attempt < r_retries + 1
  /\ \E resp \in AllResponses :
       LET this == UrlCheck(r_app.store_url, store_page_probe(r_app.store_url, resp)) IN
         /\ last' = Some(this)
         /\ probes' = Append(probes, [resp |-> resp, check |-> this])
         /\ r_pc' = IF this.ok THEN "return"
                    ELSE IF attempt < r_retries THEN "sleep"
                    ELSE "return"
  /\ UNCHANGED <<main_vars, save_vars, r_app, r_retries, attempt, sleeps, r_result>>

\* Line 231: _sleep_jitter(retry_backoff_seconds * (attempt + 1)), then the
\* next loop index
RetrySleep ==
  /\ r_pc = "sleep"
  /\ \E jitter \in Jitters :
       sleeps' = Append(sleeps, DefaultBackoff * (attempt + 1) * 1000 + jitter)
  /\ attempt' = attempt + 1
  /\ r_pc' = "probe"
  /\ UNCHANGED <<main_vars, save_vars, r_app, r_retries, last, probes, r_result>>

\* Lines 233-239: the AppCheckResult returned
RetryReturn ==
  /\ r_pc = "return"
  /\ r_result' = Some(AppCheckResult(r_app, IF last # None THEN last[1]
                                            ELSE UnknownCheck(r_app.store_url)))
  /\ r_pc' = "returned"
  /\ UNCHANGED <<main_vars, save_vars, r_app, r_retries, attempt, last, probes, sleeps>>

NextRetry ==
  \/ RetryProbe
  \/ RetrySleep
  \/ RetryReturn

SpecRetry == InitRetry /\ [][NextRetry]_vars

(***************************************************************************)
(* save_state, lines 75-83, one file operation per step, with a crash of   *)
(* the process at any point and the next run's load_state                  *)
(***************************************************************************)
\* A file that holds nothing yet, and one that holds the first part of the
\* text of j: neither is JSON, json.load raises on both
EmptyFile == [t |-> "garbage", empty |-> TRUE]
Truncated(j) == [t |-> "garbage", prefix_of |-> j]

\* The result lists main may pass to build_state
ResultLists ==
  UNION { { rs \in [1..Len(list) -> UNION { CheckOutcomes[a] : a \in DOMAIN CheckOutcomes }] :
              \A i \in 1..Len(list) : rs[i] \in CheckOutcomes[list[i]] } :
          list \in AppLists }

InitSave ==
  /\ alert_mode = "always"
  /\ state_file \in StateFiles
  /\ disk \in (IF state_file = "" THEN {NoFile} ELSE InitialFiles)
  /\ pc = "check"
  /\ apps_file = None
  /\ apps = <<>>
  /\ results \in ResultLists
  /\ prev_state = EmptyDict
  /\ send_report = <<>>
  /\ new_bad = <<>>
  /\ notify_ok = None
  /\ exit_code = None
  /\ sent = <<>>
  /\ saves = 0
  /\ last_run = NoLastRun
  /\ RetryIdle
  /\ s_pc = "begin"
  /\ tmp \in (IF state_file = "" THEN {NoFile} ELSE {NoFile, Garbage})
  /\ old_disk = disk
  /\ loaded = None

\* Lines 76-79: return when no state file is configured; else the parent
\* directory and the temporary path
SaveBegin ==
  /\ s_pc = "begin"
  /\ s_pc' = IF state_file = "" THEN "returned" ELSE "open"
  /\ UNCHANGED <<main_vars, retry_vars, tmp, old_disk, loaded>>

\* Mutant of SaveOpen: the state file itself is opened for writing.
SaveOpen_InPlace ==
  /\ s_pc = "open"
  /\ disk' = EmptyFile
  /\ s_pc' = "write"
  /\ UNCHANGED <<alert_mode, state_file, apps_file, pc, apps, results, prev_state, send_report,
                 new_bad, notify_ok, exit_code, sent, saves, last_run,
                 retry_vars, tmp, old_disk, loaded>>

\* Line 80: open(tmp, "w") creates or empties the temporary file
SaveOpen ==
  /\ s_pc = "open"
  /\ tmp' = EmptyFile
  /\ s_pc' = "write"
  /\ UNCHANGED <<main_vars, retry_vars, old_disk, loaded>>

\* Line 81: json.dump has written a part of the text
SaveWrite ==
  /\ s_pc = "write"
  /\ tmp' = Truncated(json_dump(build_state(results)))
  /\ s_pc' = "close"
  /\ UNCHANGED <<main_vars, retry_vars, old_disk, loaded>>

\* Lines 81-82: the rest of the text and the newline are written, the file is closed
SaveClose ==
  /\ s_pc = "close"
  /\ tmp' = JsonFile(json_dump(build_state(results)))
  /\ s_pc' = "replace"
  /\ UNCHANGED <<main_vars, retry_vars, old_disk, loaded>>

\* Line 83: os.replace(tmp, state_file), one atomic rename
SaveReplace ==
  /\ s_pc = "replace"
  /\ disk' = tmp
  /\ tmp' = NoFile
  /\ s_pc' = "returned"
  /\ UNCHANGED <<alert_mode, state_file, apps_file, pc, apps, results, prev_state, send_report,
                 new_bad, notify_ok, exit_code, sent, saves, last_run,
                 retry_vars, old_disk, loaded>>

\* The process is killed: before, during or after the writing of the
\* temporary file, before or after the rename
SaveCrash ==
  /\ s_pc \in {"begin", "open", "write", "close", "replace", "returned"}
  /\ s_pc' = "crashed"
  /\ UNCHANGED <<main_vars, retry_vars, tmp, old_disk, loaded>>

\* The next run: prev_state = load_state(state_file), line 400
LoadNext ==
  /\ s_pc \in {"crashed", "returned"}
  /\ loaded' = Some(load_state(state_file, disk))
  /\ s_pc' = "loaded"
  /\ UNCHANGED <<main_vars, retry_vars, tmp, old_disk>>

NextSave ==
  \/ SaveBegin
  \/ SaveOpen
  \/ SaveWrite
  \/ SaveClose
  \/ SaveReplace
  \/ SaveCrash
  \/ LoadNext

SpecSave == InitSave /\ [][NextSave]_vars

(***************************************************************************)
(* Properties                                                              *)
(***************************************************************************)
KeyOf(r) == app_state_key(r.app_id, r.store_url)
InSeq(x, s) == \E i \in DOMAIN s : s[i] = x
\* The target failed in the previous completed run.
WasBad(r) == \E p \in last_run.results : KeyOf(p) = KeyOf(r) /\ ~p.check.ok
\* <<name, url>> of every result of rs, in order
NamesOf(rs) == [i \in DOMAIN rs |-> <<rs[i].name, rs[i].store_url>>]

RECURSIVE Listed(_)
\* <<name, url>> of every failing-target block a report holds, in order
Listed(report) ==
  IF Len(report) < 2 THEN <<>>
  ELSE IF Head(report) # <<>> /\ Head(report)[1] = "bad"
       THEN << <<Head(report)[2], report[2][2]>> >> \o Listed(Tail(report))
       ELSE Listed(Tail(report))

\* The apps mapping a later load_state would find in the state file
PersistedApps ==
  LET st == load_state(state_file, disk)
      got == dict_get(st, "apps", EmptyDict)
  IN IF isinstance_dict(got) THEN got.v ELSE <<>>

\* C1: in transition mode with a state file, once a run has completed: a
\* target that fails now and was ok or not checked in the previous run is
\* in new_bad and one notification is attempted; a target that fails now
\* and failed in the previous run is not in new_bad and is in no report
\* sent; when every failing target failed in the previous run too, new_bad
\* is empty and no notification is attempted.
C1_AlertOnlyAtTransition ==
  (alert_mode = "transition" /\ state_file # "" /\ last_run.ran /\ pc = "done") =>
    /\ \A i \in DOMAIN results :
         ~results[i].check.ok =>
           IF WasBad(results[i])
           THEN /\ ~InSeq(results[i], new_bad)
                /\ \A k \in DOMAIN sent :
                     ~InSeq(<<results[i].name, results[i].store_url>>, Listed(sent[k]))
           ELSE /\ InSeq(results[i], new_bad)
                /\ Len(sent) = 1
                /\ InSeq(<<results[i].name, results[i].store_url>>, Listed(sent[1]))
    /\ (\A i \in DOMAIN results : ~results[i].check.ok => WasBad(results[i]))
         => new_bad = <<>> /\ sent = <<>>

\* A second run in which the same target still fails ends without a notification.
C1_Witness ==
  /\ alert_mode = "transition" /\ state_file # "" /\ last_run.ran /\ pc = "done"
  /\ \E i \in DOMAIN results : ~results[i].check.ok /\ WasBad(results[i])
  /\ { results[i] : i \in DOMAIN results } = last_run.results
  /\ new_bad = <<>> /\ sent = <<>>

\* C2: in a transition-mode run a notification is attempted iff new_bad is
\* non-empty, at most once, and the report handed to notify lists exactly
\* the targets of new_bad, in order; when new_bad is empty and bad is not,
\* notify is not called and the state file holds this run's results.
C2_NotifyIffNewBad ==
  alert_mode = "transition" =>
    /\ Len(sent) <= 1
    /\ sent # <<>> => /\ new_bad # <<>>
                      /\ sent = <<send_report>>
                      /\ Listed(sent[1]) = NamesOf(new_bad)
    /\ pc = "done" =>
         /\ new_bad # <<>> => sent # <<>>
         /\ (new_bad = <<>> /\ BadOf(results) # <<>>) =>
              /\ sent = <<>>
              /\ saves = 1
              /\ disk = JsonFile(json_dump(build_state(results)))

\* A run with one newly failing and one still failing target has notified.
C2_Witness ==
  /\ alert_mode = "transition" /\ pc = "done"
  /\ Len(new_bad) = 1 /\ Len(BadOf(results)) = 2
  /\ Len(sent) = 1

\* The entry the prior state holds under k, if it holds one.
HasEntry(st, k) ==
  /\ "apps" \in DOMAIN st.v
  /\ st.v["apps"].t = "dict"
  /\ k \in DOMAIN st.v["apps"].v
\* The entry under k exists, has an ok field, and the field is false (for a
\* field that is no boolean: is falsy, as bool() reads it).
EntryOkFalse(st, k) ==
  /\ HasEntry(st, k)
  /\ LET e == st.v["apps"].v[k] IN
       /\ e.t = "dict"
       /\ "ok" \in DOMAIN e.v
       /\ ~bool(e.v["ok"])

\* C3: new_bad is exactly the failing results, in order, whose prior entry
\* is not "exists with ok false": prev_ok is true when the prior state has
\* no entry under the key or the entry's ok is true, false only when an
\* entry exists whose ok is false.
C3_NewBadIsBadWithPrevOk ==
  (alert_mode = "transition" /\ pc \in {"notify_new", "save_new", "skip", "save_bad", "done"}
     /\ BadOf(results) # <<>>) =>
    new_bad = SelectSeq(BadOf(results), LAMBDA r : ~EntryOkFalse(prev_state, KeyOf(r)))

\* Prior state {A: ok=false}, current A and B failing, no prior entry for B:
\* new_bad is B alone.
C3_Witness ==
  /\ alert_mode = "transition" /\ pc = "notify_new"
  /\ Len(BadOf(results)) = 2 /\ Len(new_bad) = 1
  /\ \E i \in DOMAIN results :
       /\ EntryOkFalse(prev_state, KeyOf(results[i]))
       /\ ~InSeq(results[i], new_bad)
  /\ ~HasEntry(prev_state, KeyOf(new_bad[1]))

\* C4: in always mode a run with a failing target attempts exactly one
\* notification, whose report lists every failing target of the run; a run
\* without one attempts none and returns 0.  Nothing of the prior state is
\* read: the report is format_bad_only_report of this run's results.
C4_AlwaysModeNotifiesAllBad ==
  (alert_mode = "always" /\ pc = "done") =>
    /\ BadOf(results) # <<>> =>
         /\ Len(sent) = 1
         /\ Listed(sent[1]) = NamesOf(BadOf(results))
         /\ prev_state = EmptyDict
    /\ BadOf(results) = <<>> => sent = <<>> /\ exit_code = Some(0)

\* A target that failed in the previous run too is notified again.
C4_Witness ==
  /\ alert_mode = "always" /\ state_file # "" /\ last_run.ran /\ pc = "done"
  /\ Len(BadOf(results)) = 2
  /\ \A i \in DOMAIN results : WasBad(results[i])
  /\ Len(sent) = 1

\* C5: in a transition-mode run, from the load of the prior state until the
\* save, nothing has been saved and prev_state is what the state file still
\* holds; and the step that saves is taken only after new_bad has been
\* computed from that prior state.
C5_DecisionBeforeOverwrite ==
  /\ []((alert_mode = "transition"
           /\ pc \in {"format", "notify_new", "save_new", "skip", "save_bad"})
          => (saves = 0 /\ prev_state = load_state(state_file, disk)))
  /\ [][(saves' > saves \/ disk' # disk) =>
          ((alert_mode = "transition" /\ BadOf(results) # <<>>) =>
             /\ pc \in {"save_new", "save_bad"}
             /\ new_bad = new_bad_of(results, load_state(state_file, disk)))]_vars

\* About to overwrite a prior state that says something else than this run.
C5_Witness ==
  /\ alert_mode = "transition" /\ state_file # "" /\ last_run.ran
  /\ pc = "save_new"
  /\ new_bad # <<>>
  /\ disk # save_state(state_file, build_state(results), disk)

\* This run's snapshot as the state file holds it.
Snapshot(rs) == JsonFile(json_dump(build_state(rs)))

\* C6 as stated: no run that finishes checking exits without the state file
\* holding the run's result snapshot.
C6_PersistedAfterEveryRun ==
  pc = "done" => disk = Snapshot(results)

\* C6, amended: every run that finishes checking calls save_state exactly
\* once before it exits, on every branch and in both modes; when a state
\* file is configured the file then holds the run's result snapshot (with
\* STATE_FILE empty the call writes nothing).
C6_SavedWhenStateFileConfigured ==
  pc = "done" =>
    /\ saves = 1
    /\ state_file # "" => disk = Snapshot(results)
    /\ state_file = "" => disk = NoFile

\* A run whose notification failed has written its snapshot.
C6_Witness ==
  /\ pc = "done" /\ state_file # "" /\ alert_mode = "transition"
  /\ notify_ok = Some(FALSE)
  /\ last_run.ran /\ last_run.results # { results[i] : i \in DOMAIN results }
  /\ disk = Snapshot(results)

\* The persisted state holds one entry per key of rs and no other, each
\* with the ok, http_status and detail of its result.
Reflects(rs) ==
  LET persisted == PersistedApps IN
  /\ DOMAIN persisted = { KeyOf(r) : r \in rs }
  /\ \A r \in rs :
       LET e == persisted[KeyOf(r)] IN
         /\ e.t = "dict"
         /\ e.v["ok"] = PyBool(r.check.ok)
         /\ e.v["http_status"] = (IF r.check.http_status = None THEN PyNone
                                  ELSE PyInt(r.check.http_status[1]))
         /\ e.v["detail"] = PyStr(r.check.detail)

\* C7 as stated: after a completed run the persisted state reflects exactly
\* that run, whatever the configuration.
C7_StateReflectsLastRun ==
  /\ pc = "done" => Reflects({ results[i] : i \in DOMAIN results })
  /\ (pc = "start" /\ last_run.ran) => Reflects(last_run.results)

\* C7, amended: when a state file is configured, once a run has exited and
\* when the next one starts the persisted state holds exactly one entry per
\* key of the targets checked in that run, with that run's ok, http_status
\* and detail, and no entry for any other key.
C7_StateReflectsLastRunWithStateFile ==
  state_file # "" =>
    /\ pc = "done" => Reflects({ results[i] : i \in DOMAIN results })
    /\ (pc = "start" /\ last_run.ran) => Reflects(last_run.results)

\* A run over a shorter target list than the previous one has saved.
C7_Witness ==
  /\ state_file # "" /\ pc = "done" /\ last_run.ran
  /\ results # <<>>
  /\ \E p \in last_run.results : \A i \in DOMAIN results : KeyOf(results[i]) # KeyOf(p)
  /\ \E p \in last_run.results : \E i \in DOMAIN results :
       KeyOf(results[i]) = KeyOf(p) /\ results[i].check # p.check
  /\ Reflects({ results[i] : i \in DOMAIN results })

\* The target of p is not in this run's list.
Removed(p) == \A i \in DOMAIN results : KeyOf(results[i]) # KeyOf(p)

\* C8 as stated: the entry of a target checked in the previous run and
\* removed from the list is still in the persisted state after this run
\* has saved.
C8_RemovedEntryLingers ==
  (state_file # "" /\ pc = "done" /\ last_run.ran) =>
    LET persisted == PersistedApps IN
    \A p \in last_run.results : Removed(p) => KeyOf(p) \in DOMAIN persisted

\* C8, amended: the entry of a target checked in the previous run and
\* removed from the list is gone from the persisted state once this run
\* has saved.
C8_RemovedEntryPruned ==
  (pc = "done" /\ last_run.ran) =>
    LET persisted == PersistedApps IN
    \A p \in last_run.results : Removed(p) => KeyOf(p) \notin DOMAIN persisted

\* The previous run stored a target that this run, which has saved, did not check.
C8_Witness ==
  /\ state_file # "" /\ pc = "done" /\ last_run.ran
  /\ \E p \in last_run.results : Removed(p) /\ ~p.check.ok
  /\ DOMAIN PersistedApps # {}

\* C9: when no probe of the target returned ok, check_one_app has made
\* exactly retries + 1 probes and its result carries the ok, http_status and
\* detail of the last probe.
C9_ReturnsLastAttempt ==
  (r_pc = "returned" /\ \A i \in DOMAIN probes : ~probes[i].check.ok) =>
    /\ Len(probes) = r_retries + 1
    /\ r_result # None
    /\ r_result[1].check = probes[Len(probes)].check
    /\ r_result[1].check.ok = FALSE

\* Failed probes with different outcomes: the result is that of the last.
C9_Witness ==
  /\ r_pc = "returned" /\ r_retries >= 1
  /\ \A i \in DOMAIN probes : ~probes[i].check.ok
  /\ probes[1].check # probes[Len(probes)].check
  /\ r_result[1].check = probes[Len(probes)].check

\* C10: a probe that returned ok is the last probe made: index k = attempt,
\* k + 1 probes in all, no sleep after the k sleeps that preceded it, the
\* loop is left, and the result returned carries that probe's outcome.
C10_StopsAtFirstOk ==
  \A i \in DOMAIN probes :
    probes[i].check.ok =>
      /\ i = Len(probes)
      /\ i = attempt + 1
      /\ i <= r_retries + 1
      /\ Len(sleeps) = i - 1
      /\ r_pc \in {"return", "returned"}
      /\ r_pc = "returned" => r_result = Some(AppCheckResult(r_app, probes[i].check))

\* Success at the second of three allowed attempts.
C10_Witness ==
  /\ r_pc = "returned"
  /\ Len(probes) = 2 /\ r_retries >= 2
  /\ probes[2].check.ok
  /\ Len(sleeps) = 1
  /\ r_result[1].check = probes[2].check

\* The step-wise loop and the operator check_one_app give the same result.
RetryMatchesOperator ==
  r_pc = "returned" =>
    \E resps \in [1..(r_retries + 1) -> AllResponses] :
      /\ \A i \in DOMAIN probes : resps[i] = probes[i].resp
      /\ r_result = Some(check_one_app(r_app, r_retries, resps))

(***************************************************************************)
(* C11-C20                                                                 *)
(***************************************************************************)
\* How a completed run ended: no failing target; failing targets and a
\* delivered notification; failing targets and a notification that failed;
\* failing targets and no notification attempted.
Outcome(no_bad, notified, ok) ==
  IF no_bad THEN "clean"
  ELSE IF ~notified THEN "silent"
  ELSE IF ok = Some(TRUE) THEN "alerted"
  ELSE "notify_failed"

RunOutcome == Outcome(BadOf(results) = <<>>, sent # <<>>, notify_ok)
LastOutcome ==
  Outcome(\A p \in last_run.results : p.check.ok, last_run.notified, last_run.notify_ok)

ExitOutcomes == {"clean", "alerted", "notify_failed"}

\* C11: within one alert mode, two completed runs that ended differently among
\* clean, alerted and notify-failed returned different exit codes.
C11_ExitCodeDistinguishes ==
  (pc = "done" /\ last_run.ran) =>
    ((/\ RunOutcome \in ExitOutcomes
      /\ LastOutcome \in ExitOutcomes
      /\ RunOutcome # LastOutcome) => exit_code # last_run.exit_code)

\* The causes of a failed notification named by the notifier: the transport
\* raised, the channel's endpoint or credential is empty, the channel is unknown.
NotifyFailureCause(env, reply) ==
  LET channel == lower(env_get(env, "NOTIFY_CHANNEL", "wecom")) IN
    \/ channel \notin {"wecom", "serverchan"}
    \/ channel = "wecom" /\ env_get(env, "WECOM_WEBHOOK_URL", "") = ""
    \/ channel = "serverchan" /\ env_get(env, "SERVERCHAN_SENDKEY", "") = ""
    \/ reply = None

\* Whatever the environment and the channel's answer, notify returns, and
\* with ok = false when a cause of failure is present
FailuresAreReturned ==
  \A env \in NotifyEnvs, reply \in PostReplies :
    LET res == notify(<<>>, env, reply) IN
      /\ ~IsRaised(res)
      /\ NotifyFailureCause(env, reply) => ~res.ok

Unusable(file) ==
  \/ file \in {NoFile, Unreadable, Garbage}
  \/ file.t = "json" /\ file.v.t # "object"

\* C13: in transition mode with a state file that is missing, unreadable,
\* unparseable or not a mapping, load_state returns the empty state, every
\* failing target of the run is newly bad, the notification is attempted, and
\* the run saves the current results and returns.
C13_UnusableStateIsEmpty ==
  /\ [](( /\ alert_mode = "transition" /\ state_file # ""
          /\ saves = 0 /\ Unusable(disk)
          /\ pc \in {"format", "notify_new", "save_new", "skip", "save_bad"} ) =>
         /\ prev_state = EmptyDict
         /\ pc \notin {"skip", "save_bad"}
         /\ (pc # "format") => (new_bad = BadOf(results) /\ new_bad # <<>>)
         /\ (pc = "save_new") => (sent = <<send_report>>))
  /\ [][( /\ alert_mode = "transition" /\ state_file # ""
          /\ Unusable(disk) /\ pc = "save_new" ) =>
         (pc' = "done" /\ disk' = Snapshot(results) /\ exit_code' \in {Some(0), Some(2)})]_vars

C13_Witness ==
  /\ alert_mode = "transition" /\ state_file # ""
  /\ pc = "save_new" /\ saves = 0 /\ disk = Garbage
  /\ prev_state = EmptyDict
  /\ Len(new_bad) = 2
  /\ sent = <<send_report>>

\* save_state taken step by step returns with what the operator save_state
\* gives (lemma).
SaveMatchesOperator ==
  (s_pc = "returned") => (disk = save_state(state_file, build_state(results), old_disk))

\* C14: whatever the point at which the process is killed in save_state, the
\* state file holds the complete previous content or the complete new state,
\* and the next run's load_state returns what it returns for one of the two.
C14_AtomicStateWrite ==
  (s_pc # "idle") =>
    /\ disk \in {old_disk, Snapshot(results)}
    /\ (s_pc = "loaded") =>
         loaded[1] \in {load_state(state_file, old_disk), build_state(results)}

C14_Witness ==
  /\ s_pc = "loaded"
  /\ tmp = Truncated(json_dump(build_state(results)))
  /\ Len(results) = 2
  /\ old_disk = JsonFile(JObject([apps |-> JObject([k \in {Key1} |->
                                    JObject([ok |-> [t |-> "false"]])])]))
  /\ disk = old_disk
  /\ loaded = Some(load_state(state_file, old_disk))

\* One of the malformations the validation names, stated on the raw entry
Malformed(raw) ==
  /\ isinstance_dict(raw)
  /\ LET field(k) == IF k \in DOMAIN raw.v THEN py_str(raw.v[k]) ELSE ""
         url == str_strip(field("store_url"))
         when == IF "listed_at" \in DOMAIN raw.v /\ raw.v["listed_at"] # PyNone
                 THEN str_strip(field("listed_at")) ELSE ""
     IN \/ str_strip(field("name")) = ""
        \/ ~isdigit(str_strip(field("app_id")))
        \/ url = ""
        \/ ~(startswith(url, "http://") \/ startswith(url, "https://"))
        \/ when # "" /\ ~(is_date(when) \/ is_datetime(when) \/ is_datetime_tz(when))

\* The target lists with a malformed entry
MalformedFiles ==
  { data \in AppsFiles :
      data.t = "list" /\ \E idx \in DOMAIN data.v : Malformed(data.v[idx]) }

\* C15: when an entry of the target list is malformed, the run ends with the
\* validation error of load_apps: no target has been probed, not even a
\* well-formed one listed before the malformed entry, no notification has
\* been sent and save_state has not been called.
C15_MalformedListFailsBeforeProbing ==
  (apps_file # None /\ apps_file[1] \in MalformedFiles) =>
    /\ pc = "raised"
    /\ apps = <<>> /\ results = <<>>
    /\ sent = <<>> /\ notify_ok = None
    /\ saves = 0
    /\ exit_code = Some(1)

C15_Witness ==
  /\ pc = "raised"
  /\ apps_file # None /\ apps_file[1] \in MalformedFiles
  /\ Len(apps_file[1].v) = 2
  /\ ~Malformed(apps_file[1].v[1])
  /\ Malformed(apps_file[1].v[2])
  /\ results = <<>> /\ sent = <<>> /\ saves = 0

\* The list main checks is one of the target lists, normalized (lemma).
LoadedAppsAreTargets ==
  (pc \notin {"start", "raised"}) => (apps \in AppLists /\ load_apps(apps_file[1]) = Returned(apps))

\* C16: the results are those of the loaded targets, one each and in the
\* order of the list; each comes from a probe of its target; and once the
\* loop has ended every target has its result, whatever the earlier results were.
C16_OneResultPerTargetInOrder ==
  (pc \notin {"start", "raised"}) =>
    /\ Len(results) <= Len(apps)
    /\ \A i \in DOMAIN results :
         /\ results[i] = AppCheckResult(apps[i], results[i].check)
         /\ results[i].check.url = apps[i].store_url
         /\ results[i].check # UnknownCheck(apps[i].store_url)
    /\ (pc # "check") => (Len(results) = Len(apps))

C16_Witness ==
  /\ pc = "done"
  /\ Len(apps) = 2 /\ Len(results) = 2
  /\ apps[1] = App(2) /\ apps[2] = App(1)
  /\ results[1].name = App(2).name /\ results[1].check.http_status = None
  /\ results[2].name = App(1).name /\ results[2].check.ok

\* C17: the state that save_state wrote from build_state(results), read back
\* by load_state, is build_state(results) again, and holds under each
\* target's key the ok, http_status and detail of the target's result.
C17_StateRoundTrip ==
  (s_pc = "loaded" /\ disk # old_disk) =>
    LET st == loaded[1] IN
      /\ st = build_state(results)
      /\ isinstance_dict(st) /\ "apps" \in DOMAIN st.v /\ isinstance_dict(st.v["apps"])
      /\ DOMAIN st.v["apps"].v = { KeyOf(results[i]) : i \in DOMAIN results }
      /\ \A i \in DOMAIN results :
           LET e == st.v["apps"].v[KeyOf(results[i])].v
               c == results[i].check
           IN /\ e["ok"] = PyBool(c.ok)
              /\ e["http_status"] =
                   (IF c.http_status = None THEN PyNone ELSE PyInt(c.http_status[1]))
              /\ e["detail"] = PyStr(c.detail)

C17_Witness ==
  /\ s_pc = "loaded" /\ disk # old_disk
  /\ Len(results) = 2
  /\ results[1].check.http_status = None
  /\ results[2].check.http_status = Some(404)
  /\ loaded = Some(build_state(results))

\* The key of the target has a failing result in the run
FailsIn(rs, k) == \E p \in rs : KeyOf(p) = k /\ ~p.check.ok

\* C18: in transition mode with a state file, a run that alerted and whose
\* notify call failed has saved its failing targets as ok = false and returned
\* 2; and the run after it, when its failing targets all failed in that run
\* too, has no new_bad, calls notify for nothing and returns 0.
C18_FailedAlertNotRetried ==
  /\ (alert_mode = "transition" /\ state_file # "" /\ pc = "done"
        /\ sent # <<>> /\ notify_ok = Some(FALSE)) =>
       /\ exit_code = Some(2)
       /\ LET persisted == PersistedApps IN
            \A i \in DOMAIN new_bad :
              /\ KeyOf(new_bad[i]) \in DOMAIN persisted
              /\ persisted[KeyOf(new_bad[i])].v["ok"] = PyBool(FALSE)
  /\ (alert_mode = "transition" /\ state_file # "" /\ pc = "done"
        /\ last_run.ran /\ last_run.notified /\ last_run.notify_ok = Some(FALSE)) =>
       /\ last_run.exit_code = Some(2)
       /\ (BadOf(results) # <<>>
             /\ \A i \in DOMAIN results :
                  ~results[i].check.ok => FailsIn(last_run.results, KeyOf(results[i]))) =>
            /\ new_bad = <<>>
            /\ sent = <<>>
            /\ exit_code = Some(0)

C18_Witness ==
  /\ alert_mode = "transition" /\ state_file # "" /\ pc = "done"
  /\ last_run.ran /\ last_run.notified /\ last_run.notify_ok = Some(FALSE)
  /\ last_run.exit_code = Some(2)
  /\ BadOf(results) # <<>>
  /\ \A i \in DOMAIN results :
       ~results[i].check.ok => FailsIn(last_run.results, KeyOf(results[i]))
  /\ new_bad = <<>> /\ sent = <<>> /\ exit_code = Some(0)

\* C19: with no state file configured nothing is ever written and load_state
\* returns the empty state, so in transition mode every failing target of
\* every run is in new_bad; and in either mode a completed run has called
\* notify once when a target failed and not at all otherwise.
C19_NoStateFileAlertsEveryRun ==
  (state_file = "") =>
    /\ disk = NoFile
    /\ (alert_mode = "transition"
          /\ pc \in {"format", "notify_new", "save_new", "skip", "save_bad", "done"}
          /\ BadOf(results) # <<>>) =>
         /\ prev_state = EmptyDict
         /\ pc \notin {"skip", "save_bad"}
         /\ (pc # "format") => (new_bad = BadOf(results))
    /\ (pc = "done") => (Len(sent) = IF BadOf(results) # <<>> THEN 1 ELSE 0)

C19_Witness ==
  /\ state_file = "" /\ alert_mode = "transition" /\ pc = "done"
  /\ last_run.ran /\ last_run.notified
  /\ Len(results) = 2
  /\ \A i \in DOMAIN results : ~results[i].check.ok /\ WasBad(results[i])
  /\ new_bad = results
  /\ sent = <<send_report>>

\* C20: in transition mode with a state file, a target that failed in one
\* run, was ok in the next and fails in the run after it is in new_bad and in
\* the report of the one notification attempted; and a run in which every
\* target is ok overwrites the state file with its ok = true entries.
C20_RecoveryRearmsAlert ==
  /\ (alert_mode = "transition" /\ state_file # "" /\ pc = "done" /\ last_run.ran) =>
       \A i \in DOMAIN results :
         (~results[i].check.ok /\ KeyOf(results[i]) \in last_run.recovered) =>
           /\ InSeq(results[i], new_bad)
           /\ Len(sent) = 1
           /\ InSeq(<<results[i].name, results[i].store_url>>, Listed(sent[1]))
  /\ (state_file # "" /\ pc = "done" /\ BadOf(results) = <<>>) =>
       /\ saves = 1
       /\ disk = Snapshot(results)
       /\ LET persisted == PersistedApps IN
            /\ DOMAIN persisted = { KeyOf(results[i]) : i \in DOMAIN results }
            /\ \A k \in DOMAIN persisted : persisted[k].v["ok"] = PyBool(TRUE)

C20_Witness ==
  /\ alert_mode = "transition" /\ state_file # "" /\ pc = "done" /\ last_run.ran
  /\ \E i \in DOMAIN results :
       /\ ~results[i].check.ok
       /\ KeyOf(results[i]) \in last_run.recovered
       /\ InSeq(results[i], new_bad)
  /\ \E i \in DOMAIN results : ~results[i].check.ok /\ WasBad(results[i])
  /\ Len(sent) = 1

=============================================================================
